---- MODULE Spec2Model ----
(***************************************************************************)
(* Model of sunrise (src/main.go): a daemon that polls the Sunshine log,   *)
(* detects new "monitor is missing" entries by their bracketed timestamp   *)
(* and runs the wake / wait / restart sequence.                            *)
(*                                                                         *)
(* Text is a sequence of one-character strings.  A point in time is a pair *)
(* <<day, ms>>: days since 0001-01-01 (the day of Go's zero time.Time) and *)
(* milliseconds into that day; time.Local is taken to be UTC.              *)
(***************************************************************************)
EXTENDS Integers, Sequences, FiniteSets, TLC

\* ------------------------------------------------------------------ bounds

\* Largest number of lines the log file holds in the model.
MaxLines == 2

\* ------------------------------------------------------------------- text

Digits == {"0", "1", "2", "3", "4", "5", "6", "7", "8", "9"}

DigitVal(ch) ==
    CASE ch = "0" -> 0 [] ch = "1" -> 1 [] ch = "2" -> 2 [] ch = "3" -> 3
      [] ch = "4" -> 4 [] ch = "5" -> 5 [] ch = "6" -> 6 [] ch = "7" -> 7
      [] ch = "8" -> 8 [] ch = "9" -> 9

\* s[n:] of Go.
Drop(s, n) == SubSeq(s, n + 1, Len(s))

\* strings.HasPrefix(s, p)
HasPrefix(s, p) == Len(s) >= Len(p) /\ SubSeq(s, 1, Len(p)) = p

\* strings.Index(s, <<ch>>) for a one-byte needle: 0-based, -1 when absent.
IndexByte(s, ch) ==
    IF \E i \in 1..Len(s) : s[i] = ch
    THEN (CHOOSE i \in 1..Len(s) : s[i] = ch /\ \A j \in 1..(i - 1) : s[j] # ch) - 1
    ELSE -1

\* strings.Contains(s, sub)
Contains(s, sub) ==
    \E i \in 0..(Len(s) - Len(sub)) : SubSeq(s, i + 1, i + Len(sub)) = sub

\* ------------------------------------------------------------ time values

\* time.Time{}: 0001-01-01 00:00:00 UTC.
ZeroTime == <<0, 0>>

IsZero(t) == t = ZeroTime

\* t.After(u)
After(t, u) == t[1] > u[1] \/ (t[1] = u[1] /\ t[2] > u[2])

IsLeap(year) == year % 4 = 0 /\ (year % 100 # 0 \/ year % 400 = 0)

daysIn(month, year) ==
    IF month = 2 THEN (IF IsLeap(year) THEN 29 ELSE 28)
    ELSE IF month \in {4, 6, 9, 11} THEN 30 ELSE 31

\* Days of the months before `month` in `year`.
RECURSIVE DaysBeforeMonth(_, _)
DaysBeforeMonth(month, year) ==
    IF month <= 1 THEN 0
    ELSE DaysBeforeMonth(month - 1, year) + daysIn(month - 1, year)

\* time.Date(year, month, day, hour, min, sec, nsec, loc) in the proleptic
\* Gregorian calendar, as the pair <<days since 0001-01-01, ms of the day>>.
Date(year, month, day, hour, min, sec, msec) ==
    LET y == year - 1
    IN  << 365 * y + (y \div 4) - (y \div 100) + (y \div 400)
             + DaysBeforeMonth(month, year) + (day - 1),
           ((hour * 60 + min) * 60 + sec) * 1000 + msec >>

\* ------------------------------------------- time.ParseInLocation (layout)

ErrNum == [ok |-> FALSE, n |-> 0, rest |-> <<>>]

isDigit(s, i) == i < Len(s) /\ s[i + 1] \in Digits

\* getnum(s, fixed): one or two leading digits; two are required when fixed.
getnum(s, fixed) ==
    IF ~isDigit(s, 0) THEN ErrNum
    ELSE IF ~isDigit(s, 1)
         THEN (IF fixed THEN ErrNum
               ELSE [ok |-> TRUE, n |-> DigitVal(s[1]), rest |-> Drop(s, 1)])
         ELSE [ok |-> TRUE, n |-> DigitVal(s[1]) * 10 + DigitVal(s[2]),
               rest |-> Drop(s, 2)]

\* Value of a text made of digits only.
RECURSIVE DigitsVal(_)
DigitsVal(s) ==
    IF s = <<>> THEN 0
    ELSE DigitsVal(SubSeq(s, 1, Len(s) - 1)) * 10 + DigitVal(s[Len(s)])

AllDigits(s) == \A i \in 1..Len(s) : s[i] \in Digits

\* atoi(s): an optional sign, then digits to the end of s.
atoi(s) ==
    LET signed == Len(s) > 0 /\ s[1] \in {"-", "+"}
        body   == IF signed THEN Drop(s, 1) ELSE s
    IN  IF ~AllDigits(body) THEN ErrNum
        ELSE [ok |-> TRUE,
              n |-> IF signed /\ s[1] = "-" THEN 0 - DigitsVal(body) ELSE DigitsVal(body),
              rest |-> <<>>]

\* skip(value, <<ch>>) for a literal byte of the layout other than a space.
skipByte(s, ch) ==
    IF Len(s) = 0 \/ s[1] # ch THEN [ok |-> FALSE, rest |-> <<>>]
    ELSE [ok |-> TRUE, rest |-> Drop(s, 1)]

RECURSIVE cutspace(_)
cutspace(s) == IF Len(s) > 0 /\ s[1] = " " THEN cutspace(Drop(s, 1)) ELSE s

\* skip(value, " "): a space of the layout matches a run of spaces.
skipSpace(s) ==
    IF Len(s) > 0 /\ s[1] # " " THEN [ok |-> FALSE, rest |-> <<>>]
    ELSE [ok |-> TRUE, rest |-> cutspace(s)]

commaOrPeriod(ch) == ch \in {".", ","}

ErrTime == [kind |-> "error", t |-> ZeroTime]

\* time.ParseInLocation("2006-01-02 15:04:05.000", value, time.Local)
ParseInLocation(value) ==
    IF Len(value) < 4 \/ ~isDigit(value, 0) THEN ErrTime ELSE
    LET year == atoi(SubSeq(value, 1, 4))
        d1   == skipByte(Drop(value, 4), "-")
    IN  IF ~year.ok \/ ~d1.ok THEN ErrTime ELSE
    LET month == getnum(d1.rest, TRUE)
    IN  IF ~month.ok \/ month.n <= 0 \/ 12 < month.n THEN ErrTime ELSE
    LET d2 == skipByte(month.rest, "-")
    IN  IF ~d2.ok THEN ErrTime ELSE
    LET day == getnum(d2.rest, TRUE)
    IN  IF ~day.ok THEN ErrTime ELSE
    LET sp == skipSpace(day.rest)
    IN  IF ~sp.ok THEN ErrTime ELSE
    LET hour == getnum(sp.rest, FALSE)
    IN  IF ~hour.ok \/ 24 <= hour.n THEN ErrTime ELSE
    LET c1 == skipByte(hour.rest, ":")
    IN  IF ~c1.ok THEN ErrTime ELSE
    LET min == getnum(c1.rest, TRUE)
    IN  IF ~min.ok \/ 60 <= min.n THEN ErrTime ELSE
    LET c2 == skipByte(min.rest, ":")
    IN  IF ~c2.ok THEN ErrTime ELSE
    LET sec == getnum(c2.rest, TRUE)
    IN  IF ~sec.ok \/ 60 <= sec.n THEN ErrTime ELSE
    LET fr == sec.rest
    IN  IF Len(fr) < 4 \/ ~commaOrPeriod(fr[1]) THEN ErrTime ELSE
    LET ms == atoi(SubSeq(fr, 2, 4))
    IN  IF ~ms.ok \/ ms.n < 0 THEN ErrTime
        ELSE IF Len(fr) # 4 THEN ErrTime
        ELSE IF day.n < 1 \/ day.n > daysIn(month.n, year.n) THEN ErrTime
        ELSE [kind |-> "time",
              t |-> Date(year.n, month.n, day.n, hour.n, min.n, sec.n, ms.n)]

\* parseSunshineTimestamp without the test of the leading bracket.
parseSunshineTimestampAnyHead(line) ==
    LET endIdx == IndexByte(line, "]")
    IN  IF endIdx = -1 THEN ErrTime
        ELSE IF ~(0 <= 1 /\ 1 <= endIdx /\ endIdx <= Len(line))
             THEN [kind |-> "panic", t |-> ZeroTime]
        ELSE ParseInLocation(SubSeq(line, 2, endIdx))

\* line[lo:hi] of Go panics unless 0 <= lo <= hi <= len(line).
SliceOK(line, lo, hi) == 0 <= lo /\ lo <= hi /\ hi <= Len(line)

\* parseSunshineTimestamp(line): "time" with the parsed time, "error", or
\* "panic" when the slice expression is out of range.
parseSunshineTimestamp(line) ==
    LET endIdx == IndexByte(line, "]")
    IN  IF ~HasPrefix(line, <<"[">>) \/ endIdx = -1 THEN ErrTime
        ELSE IF ~SliceOK(line, 1, endIdx) THEN [kind |-> "panic", t |-> ZeroTime]
        ELSE ParseInLocation(SubSeq(line, 2, endIdx))


\* ------------------------------------------------------- the Sunshine log

\* c.MonitorIsOffLogLine
MonitorIsOffLogLine == <<"o", "f", "f">>

\* A monitor-missing entry at T1 = 2024-01-01 10:00:00.000.
LineA == <<"[", "2", "0", "2", "4", "-", "0", "1", "-", "0", "1", " ", "1", "0", ":", "0", "0", ":", "0", "0", ".", "0", "0", "0", "]", " ", "o", "f", "f">>

\* A monitor-missing entry one millisecond later, at T2.
LineB == <<"[", "2", "0", "2", "4", "-", "0", "1", "-", "0", "1", " ", "1", "0", ":", "0", "0", ":", "0", "0", ".", "0", "0", "1", "]", " ", "o", "f", "f">>

\* A monitor-missing entry whose timestamp is before 0001-01-01.
LineZ == <<"[", "0", "0", "0", "0", "-", "1", "2", "-", "3", "1", " ", "2", "3", ":", "5", "9", ":", "5", "9", ".", "9", "9", "9", "]", " ", "o", "f", "f">>

\* A monitor-missing entry with no timestamp in front.
LineU == <<"o", "f", "f">>

\* An entry later than T2 that is not a monitor-missing entry.
LineN == <<"[", "2", "0", "2", "4", "-", "0", "1", "-", "0", "2", " ", "0", "0", ":", "0", "0", ":", "0", "0", ".", "0", "0", "0", "]", " ", "o", "k">>

\* The lines Sunshine writes in the model.
LogLines == {LineA, LineB, LineZ, LineU, LineN}

\* What isMonitorMissing computes for a line of the log: whether it contains
\* c.MonitorIsOffLogLine, and what parseSunshineTimestamp returns for it.
LineInfo ==
    [line \in LogLines |->
        [matches |-> Contains(line, MonitorIsOffLogLine),
         entry   |-> parseSunshineTimestamp(line)]]

\* logInfo.Size(): every line ends in a newline.
RECURSIVE FileSize(_)
FileSize(f) == IF f = <<>> THEN 0 ELSE Len(Head(f)) + 1 + FileSize(Tail(f))


\* ------------------------------------- lines handed to the parser alone

\* A line is a head, a date, a separator, a clock, a fraction, a closing
\* part and a tail, each drawn from well-formed and malformed variants.
Heads == {<<"[">>,
     <<>>,
     <<"x", "[">>,
     <<"]", "[">>}

DateTexts == {<<"2", "0", "2", "4", "-", "0", "1", "-", "0", "1">>,
     <<"0", "0", "0", "0", "-", "1", "2", "-", "3", "1">>,
     <<"2", "0", "2", "4", "-", "0", "2", "-", "2", "9">>,
     <<"2", "0", "2", "3", "-", "0", "2", "-", "2", "9">>,
     <<"2", "0", "2", "4", "-", "1", "3", "-", "0", "1">>,
     <<"2", "0", "2", "4", "-", "0", "4", "-", "3", "1">>,
     <<"2", "0", "2", "4", "-", "0", "1", "-", "0", "0">>,
     <<"2", "0", "2", "4", "-", "1", "-", "0", "1">>,
     <<"2", "4", "-", "0", "1", "-", "0", "1">>,
     <<"2", "0", "2", "4", "/", "0", "1", "/", "0", "1">>}

Separators == {<<" ">>,
     <<" ", " ">>,
     <<>>,
     <<"T">>}

ClockTexts == {<<"1", "0", ":", "0", "0", ":", "0", "0">>,
     <<"9", ":", "0", "0", ":", "0", "0">>,
     <<"2", "3", ":", "5", "9", ":", "5", "9">>,
     <<"2", "4", ":", "0", "0", ":", "0", "0">>,
     <<"1", "0", ":", "6", "0", ":", "0", "0">>,
     <<"1", "0", ":", "0", "0", ":", "6", "0">>,
     <<"1", "0", ":", "0", ":", "0", "0">>,
     <<"1", "0", "0", ":", "0", "0", ":", "0", "0">>}

FractionTexts == {<<".", "0", "0", "0">>,
     <<",", "0", "0", "0">>,
     <<".", "+", "1", "2">>,
     <<".", "-", "1", "2">>,
     <<".", "-", "0", "0">>,
     <<".", "0", "0">>,
     <<".", "0", "0", "0", "0">>,
     <<>>,
     <<".", "0", "a", "0">>}

Closers == {<<"]">>,
     <<>>}

Tails == {<<" ", "o", "f", "f">>,
     <<>>}

ParseInputs ==
    {h \o d \o p \o c \o f \o e \o t :
        h \in Heads, d \in DateTexts, p \in Separators, c \in ClockTexts,
        f \in FractionTexts, e \in Closers, t \in Tails}

\* ------------------------------------------------------------------ state

VARIABLES
    pc,                     \* where main's loop stands
    logFile,                \* the lines of the file at c.SunshineLogPath
    lastLogSize,            \* src/main.go:21
    lastMonitorMissingTime, \* src/main.go:22
    err,                    \* main's inner err is non-nil (src/main.go:60-68)
    EnableSunshineRestart,  \* c.EnableSunshineRestart
    stat,                   \* history: what the poll in progress saw at os.Stat
    steps,                  \* history: the commands and waits of the tick in progress
    handled,                \* history: the newest timestamps of the polls that returned true
    appendOnly,             \* history: the log was never truncated
    seenParseable,          \* history: a poll has scanned a parseable monitor-missing line
    watch,                  \* history: what the run records ("plain", "obs", "two" or "once")
    prev,                   \* history: what the previous polls observed
    input,                  \* the line handed to parseSunshineTimestamp on its own
    result                  \* what parseSunshineTimestamp returned for input

progVars == <<pc, logFile, lastLogSize, lastMonitorMissingTime, err,
              EnableSunshineRestart>>

histVars == <<stat, steps, handled, appendOnly, seenParseable, watch, prev>>

parseVars == <<input, result>>

vars == <<progVars, histVars, parseVars>>

NoStat == [size |-> 0, leftSize |-> 0, leftMon |-> ZeroTime, failed |-> FALSE]

\* isMonitorMissing returned a non-nil err (os.Stat, os.Open or the scanner).
ReadFailed == [NoStat EXCEPT !.failed = TRUE]

NoPrev == [polls |-> 0, size |-> 0, lines |-> <<>>, older |-> <<>>,
           fires |-> 0, wakes |-> 0, written |-> {}]

NoResult == [kind |-> "none", t |-> ZeroTime]

Outcomes == {"ok", "exit", "launch"}

\* --------------------------------------------------- history of the polls

\* The timestamps of the monitor-missing entries of f that parse.
EntryTimes(f) ==
    {LineInfo[f[i]].entry.t :
        i \in {j \in 1..Len(f) : /\ LineInfo[f[j]].matches
                                 /\ LineInfo[f[j]].entry.kind = "time"}}

\* The newest of them: a set of one timestamp, or empty when there is none.
NewestEntry(f) ==
    {t \in EntryTimes(f) : \A u \in EntryTimes(f) : ~After(u, t)}

\* Whether some line of f is a monitor-missing entry whose timestamp parses.
HasParseable(f) == EntryTimes(f) # {}

\* The record of the previous polls after a poll that returned `missing`.
Observe(missing) ==
    IF watch \in {"plain", "once"} THEN prev
    ELSE [polls |-> IF watch = "two" THEN prev.polls + 1 ELSE 1,
          size  |-> stat.size,
          lines |-> logFile,
          older |-> IF watch = "two" THEN prev.lines ELSE prev.older,
          fires |-> IF watch = "two" /\ missing THEN prev.fires + 1 ELSE prev.fires,
          wakes |-> prev.wakes,
          written |-> prev.written]

\* The record kept when os.Stat observes `size`: a recorded poll that saw
\* another size cannot be matched by the poll in progress and is dropped.
Recall(size) ==
    IF watch = "obs" /\ size # prev.size THEN NoPrev ELSE prev

\* ------------------------------------------------------------ the program

\* resetMonitorTracking()
resetMonitorTracking == ZeroTime

\* The loop of isMonitorMissing over the lines of the log: the newest
\* monitor-missing entry, from `latest` on.
RECURSIVE ScanLines(_, _)
ScanLines(lines, latest) ==
    IF lines = <<>> THEN [panic |-> FALSE, latestOccurrence |-> latest]
    ELSE IF ~LineInfo[Head(lines)].matches
         THEN ScanLines(Tail(lines), latest)
    ELSE LET entry == LineInfo[Head(lines)].entry
         IN  IF entry.kind = "panic"
             THEN [panic |-> TRUE, latestOccurrence |-> latest]
             ELSE IF entry.kind = "error" THEN ScanLines(Tail(lines), latest)
             ELSE IF After(entry.t, latest) THEN ScanLines(Tail(lines), entry.t)
             ELSE ScanLines(Tail(lines), latest)

\* Decide with the comparison "not before" in place of "after": an entry
\* at the handled timestamp counts as new.
DecideNotBefore(latestOccurrence, last) ==
    IF IsZero(latestOccurrence)
    THEN [missing |-> FALSE, last |-> resetMonitorTracking]
    ELSE IF IsZero(last) \/ ~After(last, latestOccurrence)
         THEN [missing |-> TRUE, last |-> latestOccurrence]
         ELSE [missing |-> FALSE, last |-> last]

\* The decision of isMonitorMissing once the log is scanned: the value it
\* returns and the lastMonitorMissingTime it leaves.
Decide(latestOccurrence, last) ==
    IF IsZero(latestOccurrence)
    THEN [missing |-> FALSE, last |-> resetMonitorTracking]
    ELSE IF IsZero(last) \/ After(latestOccurrence, last)
         THEN [missing |-> TRUE, last |-> latestOccurrence]
         ELSE [missing |-> FALSE, last |-> last]

\* RotationCheck with "not larger" in place of "smaller": a file of
\* unchanged size counts as rotated.
RotationCheckNotLarger(size, lastSize, last) ==
    IF size <= lastSize THEN resetMonitorTracking ELSE last

\* What the rotation check leaves in lastMonitorMissingTime.
RotationCheck(size, lastSize, last) ==
    IF size < lastSize THEN resetMonitorTracking ELSE last

\* StoredSize keeping the largest size seen instead of the last one.
StoredSizeHighWater(size, lastSize) == IF size > lastSize THEN size ELSE lastSize

\* The lastLogSize isMonitorMissing stores after the rotation check.
StoredSize(size, lastSize) == size

\* Tick with the poll started by the ticker on its own, also while the wait
\* of the previous tick lasts.
TickDuringWait(statFails) ==
    /\ pc \in {"ticker", "wait"}
    /\ watch = "two" => prev.polls < 2
    /\ IF statFails
       THEN /\ pc' = "exited"
            /\ stat' = ReadFailed
            /\ UNCHANGED <<lastLogSize, lastMonitorMissingTime, prev>>
       ELSE /\ pc' = "open"
            /\ prev' = Recall(FileSize(logFile))
            /\ lastMonitorMissingTime' =
                   RotationCheck(FileSize(logFile), lastLogSize, lastMonitorMissingTime)
            /\ lastLogSize' = StoredSize(FileSize(logFile), lastLogSize)
            /\ stat' = [size |-> FileSize(logFile), leftSize |-> lastLogSize,
                        leftMon |-> lastMonitorMissingTime, failed |-> FALSE]
    /\ UNCHANGED <<logFile, err, EnableSunshineRestart, steps, handled,
                   appendOnly, seenParseable, watch, parseVars>>

\* <-ticker.C, then isMonitorMissing up to os.Open: os.Stat, the rotation
\* check and the update of lastLogSize.  A failing os.Stat is fatal.  (A run
\* that records "two" stops after its second poll.)
Tick(statFails) ==
    /\ pc = "ticker"
    /\ watch = "two" => prev.polls < 2
    /\ IF statFails
       THEN /\ pc' = "exited"
            /\ stat' = ReadFailed
            /\ UNCHANGED <<lastLogSize, lastMonitorMissingTime, prev>>
       ELSE /\ pc' = "open"
            /\ prev' = Recall(FileSize(logFile))
            /\ lastMonitorMissingTime' =
                   RotationCheck(FileSize(logFile), lastLogSize, lastMonitorMissingTime)
            /\ lastLogSize' = StoredSize(FileSize(logFile), lastLogSize)
            /\ stat' = [size |-> FileSize(logFile), leftSize |-> lastLogSize,
                        leftMon |-> lastMonitorMissingTime, failed |-> FALSE]
    /\ UNCHANGED <<logFile, err, EnableSunshineRestart, steps, handled,
                   appendOnly, seenParseable, watch, parseVars>>

\* Scan with main running the remediation whatever isMonitorMissing
\* returned.
ScanAlwaysRemediates(readFails) ==
    /\ pc = "open"
    /\ stat' = IF readFails THEN ReadFailed ELSE NoStat
    /\ IF readFails
       THEN /\ pc' = "exited"
            /\ UNCHANGED <<lastMonitorMissingTime, handled, seenParseable, prev>>
       ELSE LET scanned == ScanLines(logFile, ZeroTime)
                d == Decide(scanned.latestOccurrence, lastMonitorMissingTime)
            IN  /\ lastMonitorMissingTime' = d.last
                /\ pc' = "wake"
                /\ handled' = IF d.missing /\ watch # "obs"
                              THEN handled \cup NewestEntry(logFile)
                              ELSE handled
                /\ seenParseable' = IF watch # "obs"
                                    THEN seenParseable \/ HasParseable(logFile)
                                    ELSE seenParseable
                /\ prev' = Observe(d.missing)
    /\ UNCHANGED <<logFile, lastLogSize, err, EnableSunshineRestart, steps,
                   appendOnly, watch, parseVars>>

\* Scan with a failing read logged instead of fatal: main goes on to test
\* monitorIsOff, which is false, and waits for the next tick.
ScanReadErrorLogged(readFails) ==
    /\ pc = "open"
    /\ stat' = IF readFails THEN ReadFailed ELSE NoStat
    /\ IF readFails
       THEN /\ pc' = "ticker"
            /\ UNCHANGED <<lastMonitorMissingTime, handled, seenParseable, prev>>
       ELSE LET scanned == ScanLines(logFile, ZeroTime)
                d == Decide(scanned.latestOccurrence, lastMonitorMissingTime)
            IN  /\ lastMonitorMissingTime' = d.last
                /\ pc' = IF d.missing THEN "wake" ELSE "ticker"
                /\ handled' = IF d.missing /\ watch # "obs"
                              THEN handled \cup NewestEntry(logFile)
                              ELSE handled
                /\ seenParseable' = IF watch # "obs"
                                    THEN seenParseable \/ HasParseable(logFile)
                                    ELSE seenParseable
                /\ prev' = Observe(d.missing)
    /\ UNCHANGED <<logFile, lastLogSize, err, EnableSunshineRestart, steps,
                   appendOnly, watch, parseVars>>

\* The rest of isMonitorMissing, from os.Open on, and main's test of its
\* result.  A failing os.Open or scanner is fatal, and so is a panic.
Scan(readFails) ==
    /\ pc = "open"
    /\ stat' = IF readFails THEN ReadFailed ELSE NoStat
    /\ IF readFails
       THEN /\ pc' = "exited"
            /\ UNCHANGED <<lastMonitorMissingTime, handled, seenParseable, prev>>
       ELSE LET scanned == ScanLines(logFile, ZeroTime)
                d == Decide(scanned.latestOccurrence, lastMonitorMissingTime)
            IN  IF scanned.panic
                THEN /\ pc' = "exited"
                     /\ UNCHANGED <<lastMonitorMissingTime, handled, seenParseable, prev>>
                ELSE /\ lastMonitorMissingTime' = d.last
                     /\ pc' = IF d.missing THEN "wake" ELSE "ticker"
                     /\ handled' = IF d.missing /\ watch # "obs"
                                   THEN handled \cup NewestEntry(logFile)
                                   ELSE handled
                     /\ seenParseable' = IF watch # "obs"
                                         THEN seenParseable \/ HasParseable(logFile)
                                         ELSE seenParseable
                     /\ prev' = Observe(d.missing)
    /\ UNCHANGED <<logFile, lastLogSize, err, EnableSunshineRestart, steps,
                   appendOnly, watch, parseVars>>

\* wakeMonitor with a failure of the command treated as fatal.
wakeMonitorFatal(outcome) ==
    /\ pc = "wake"
    /\ err' = (outcome # "ok")
    /\ steps' = Append(steps, <<"wake", outcome>>)
    /\ prev' = IF watch = "two" THEN [prev EXCEPT !.wakes = @ + 1] ELSE prev
    /\ pc' = IF outcome = "ok" THEN "wait" ELSE "exited"
    /\ UNCHANGED <<logFile, lastLogSize, lastMonitorMissingTime,
                   EnableSunshineRestart, stat, handled, appendOnly,
                   seenParseable, watch, parseVars>>

\* wakeMonitor with a failed command forgetting the handled timestamp, so
\* that the next poll tries again.
wakeMonitorForgetsOnFailure(outcome) ==
    /\ pc = "wake"
    /\ err' = (outcome # "ok")
    /\ steps' = Append(steps, <<"wake", outcome>>)
    /\ prev' = IF watch = "two" THEN [prev EXCEPT !.wakes = @ + 1] ELSE prev
    /\ pc' = "wait"
    /\ lastMonitorMissingTime' =
           IF outcome # "ok" THEN resetMonitorTracking ELSE lastMonitorMissingTime
    /\ UNCHANGED <<logFile, lastLogSize, EnableSunshineRestart, stat, handled,
                   appendOnly, seenParseable, watch, parseVars>>

\* wakeMonitor() and main's log of its error: err is non-nil unless the
\* command ran and exited with status 0.
wakeMonitor(outcome) ==
    /\ pc = "wake"
    /\ err' = (outcome # "ok")
    /\ steps' = Append(steps, <<"wake", outcome>>)
    /\ prev' = IF watch = "two" THEN [prev EXCEPT !.wakes = @ + 1] ELSE prev
    /\ pc' = "wait"
    /\ UNCHANGED <<logFile, lastLogSize, lastMonitorMissingTime,
                   EnableSunshineRestart, stat, handled, appendOnly,
                   seenParseable, watch, parseVars>>

\* waitForMonitor followed by the restart whatever c.EnableSunshineRestart.
waitForMonitorThenRestart ==
    /\ pc = "wait"
    /\ steps' = Append(steps, <<"wait", "ok">>)
    /\ pc' = "stop"
    /\ UNCHANGED <<logFile, lastLogSize, lastMonitorMissingTime, err,
                   EnableSunshineRestart, stat, handled, appendOnly,
                   seenParseable, watch, prev, parseVars>>

\* waitForMonitor(), then main's test of c.EnableSunshineRestart.
waitForMonitor ==
    /\ pc = "wait"
    /\ steps' = Append(steps, <<"wait", "ok">>)
    /\ pc' = IF EnableSunshineRestart THEN "stop" ELSE "check"
    /\ UNCHANGED <<logFile, lastLogSize, lastMonitorMissingTime, err,
                   EnableSunshineRestart, stat, handled, appendOnly,
                   seenParseable, watch, prev, parseVars>>

\* stopSunshine with its error returned to restartSunshine, which gives up
\* before startSunshine.
stopSunshineGivesUp(outcome) ==
    /\ pc = "stop"
    /\ steps' = Append(steps, <<"stop", outcome>>)
    /\ pc' = IF outcome = "ok" THEN "start" ELSE "check"
    /\ UNCHANGED <<logFile, lastLogSize, lastMonitorMissingTime, err,
                   EnableSunshineRestart, stat, handled, appendOnly,
                   seenParseable, watch, prev, parseVars>>

\* stopSunshine(), called by restartSunshine(): the command's error is
\* logged and ignored.
stopSunshine(outcome) ==
    /\ pc = "stop"
    /\ steps' = Append(steps, <<"stop", outcome>>)
    /\ pc' = "start"
    /\ UNCHANGED <<logFile, lastLogSize, lastMonitorMissingTime, err,
                   EnableSunshineRestart, stat, handled, appendOnly,
                   seenParseable, watch, prev, parseVars>>

\* startSunshine() and err = restartSunshine(): the command is started and
\* not waited for, so err is non-nil only when it fails to launch.
startSunshine(outcome) ==
    /\ pc = "start"
    /\ outcome \in {"ok", "launch"}
    /\ steps' = Append(steps, <<"start", outcome>>)
    /\ err' = (outcome # "ok")
    /\ pc' = "check"
    /\ UNCHANGED <<logFile, lastLogSize, lastMonitorMissingTime,
                   EnableSunshineRestart, stat, handled, appendOnly,
                   seenParseable, watch, prev, parseVars>>

\* main's last test of err: a non-nil err goes on to the log line, a nil
\* one ends the loop body.
CheckErr ==
    /\ pc = "check"
    /\ IF err
       THEN pc' = "logRestartErr" /\ UNCHANGED <<err, steps>>
       ELSE pc' = "ticker" /\ err' = FALSE /\ steps' = <<>>
    /\ UNCHANGED <<logFile, lastLogSize, lastMonitorMissingTime,
                   EnableSunshineRestart, stat, handled, appendOnly,
                   seenParseable, watch, prev, parseVars>>

\* log.Println("Could not restart sunshine:", err) and the end of the loop
\* body.
LogRestartErr ==
    /\ pc = "logRestartErr"
    /\ err' = FALSE
    /\ steps' = <<>>
    /\ pc' = "ticker"
    /\ UNCHANGED <<logFile, lastLogSize, lastMonitorMissingTime,
                   EnableSunshineRestart, stat, handled, appendOnly,
                   seenParseable, watch, prev, parseVars>>

\* A call of parseSunshineTimestamp on its own.
ParseLine ==
    /\ result = NoResult
    /\ result' = parseSunshineTimestamp(input)
    /\ UNCHANGED <<progVars, histVars, input>>

\* ------------------------------------------------- Sunshine, the log writer

\* The program looks at the file at os.Stat and at os.Open only, so a write
\* made while a command runs or the wait lasts is seen exactly as a write
\* made once the tick is over.  A run that records observations has the
\* writer act at those two points.
WriterMayAct == watch = "plain" \/ pc \in {"ticker", "open"}

\* Sunshine appends a line to its log.  (A run that records "once" has
\* Sunshine write each line at most once.)
AppendLine(line) ==
    /\ Len(logFile) < MaxLines
    /\ WriterMayAct
    /\ watch = "once" => line \notin prev.written
    /\ logFile' = Append(logFile, line)
    /\ prev' = IF watch = "once"
               THEN [prev EXCEPT !.written = @ \cup {line}]
               ELSE prev
    /\ UNCHANGED <<pc, lastLogSize, lastMonitorMissingTime, err,
                   EnableSunshineRestart, stat, steps, handled, appendOnly,
                   seenParseable, watch, parseVars>>

\* Sunshine starts again and re-creates its log from scratch.
Truncate ==
    /\ logFile # <<>>
    /\ WriterMayAct
    /\ logFile' = <<>>
    /\ appendOnly' = (appendOnly /\ watch = "obs")
    /\ UNCHANGED <<pc, lastLogSize, lastMonitorMissingTime, err,
                   EnableSunshineRestart, stat, steps, handled,
                   seenParseable, watch, prev, parseVars>>

\* --------------------------------------------------------- specifications

InitWith(w) ==
    /\ pc = "ticker"
    /\ logFile = <<>>
    /\ lastLogSize = 0
    /\ lastMonitorMissingTime = ZeroTime
    /\ err = FALSE
    /\ EnableSunshineRestart \in BOOLEAN
    /\ stat = NoStat
    /\ steps = <<>>
    /\ handled = {}
    /\ appendOnly = TRUE
    /\ seenParseable = FALSE
    /\ watch = w
    /\ prev = NoPrev
    /\ result = NoResult

Init == InitWith("plain") /\ input = <<>>

Next ==
    \/ \E statFails \in BOOLEAN : Tick(statFails)
    \/ \E readFails \in BOOLEAN : Scan(readFails)
    \/ \E outcome \in Outcomes : wakeMonitor(outcome)
    \/ waitForMonitor
    \/ \E outcome \in Outcomes : stopSunshine(outcome)
    \/ \E outcome \in Outcomes : startSunshine(outcome)
    \/ CheckErr
    \/ LogRestartErr
    \/ \E line \in LogLines : AppendLine(line)
    \/ Truncate

\* The daemon and the log writer.
Spec == Init /\ [][Next]_vars

\* The steps of the program that do not fail to read the log.
ProgramStep ==
    \/ Tick(FALSE)
    \/ Scan(FALSE)
    \/ \E outcome \in Outcomes : wakeMonitor(outcome)
    \/ waitForMonitor
    \/ \E outcome \in Outcomes : stopSunshine(outcome)
    \/ \E outcome \in Outcomes : startSunshine(outcome)
    \/ CheckErr
    \/ LogRestartErr

\* The daemon with a ticker that keeps ticking, commands that return and a
\* wait that ends: the program always takes its next step.  Sunshine may
\* stop writing at any time.
FairSpec == Init /\ [][Next]_vars /\ WF_vars(ProgramStep)

\* parseSunshineTimestamp called once on a line of ParseInputs.
InitParse ==
    /\ InitWith("plain")
    /\ EnableSunshineRestart = FALSE
    /\ input \in ParseInputs

NextParse == ParseLine

SpecParse == InitParse /\ [][NextParse]_vars

\* The same, recording what each poll observed.
InitObs == InitWith("obs") /\ input = <<>>

SpecObs == InitObs /\ [][Next]_vars

\* The same, recording the first two polls of the process.
InitTwo == InitWith("two") /\ input = <<>>

SpecTwo == InitTwo /\ [][Next]_vars

\* The same, with every line written to the log at most once.
InitOnce == InitWith("once") /\ input = <<>>

SpecOnce == InitOnce /\ [][Next]_vars

\* ----------------------------------------------------------------- claims

\* The step in which isMonitorMissing returns to main without an error.
ScanReturned == pc = "open" /\ pc' \in {"wake", "ticker"}

\* The step in which isMonitorMissing returns true.
ReturnedTrue == pc = "open" /\ pc' = "wake"

\* The poll in progress saw a file smaller than the lastLogSize left by the
\* poll before it.
SizeDecreased == stat.size < stat.leftSize

T1 == LineInfo[LineA].entry.t

T2 == LineInfo[LineB].entry.t

TZ == LineInfo[LineZ].entry.t

\* C1: while the log has only ever been appended to, a poll returns true only
\* when the newest parsed monitor-missing timestamp of the log it scanned is
\* one no earlier poll returned true for: at most one true per such value.
C1_OncePerNewestTimestamp ==
    [][(appendOnly' /\ ReturnedTrue) => NewestEntry(logFile) \cap handled = {}]_vars

\* C1 witness: the log was only appended to, and a poll is about to scan a
\* log whose newest timestamp was handled by an earlier poll.
C1_Witness ==
    /\ appendOnly
    /\ pc = "open"
    /\ NewestEntry(logFile) = {T1}
    /\ T1 \in handled
    /\ Len(logFile) = 2

\* C3 as claimed: a poll that saw the size decrease and scanned a log with a
\* parseable monitor-missing line returns true and stores the newest such
\* timestamp.
C3_RotationAlwaysTriggers ==
    [][(ScanReturned /\ SizeDecreased /\ HasParseable(logFile))
          => (pc' = "wake" /\ {lastMonitorMissingTime'} = NewestEntry(logFile))]_vars

\* C5: with lastMonitorMissingTime present and no size decrease seen, a poll
\* returns true exactly when the newest parsed timestamp of the log is
\* strictly later than lastMonitorMissingTime; a newest timestamp equal to
\* it returns false.
C5_TieBreak ==
    [][(ScanReturned /\ ~SizeDecreased /\ ~IsZero(stat.leftMon))
          => /\ NewestEntry(logFile) = {stat.leftMon} => pc' = "ticker"
             /\ pc' = "wake" <=> \E t \in NewestEntry(logFile) : After(t, stat.leftMon)]_vars

\* C5 witness: T1 is handled, a second line with the same timestamp was
\* appended, and the poll that is about to scan both saw no size decrease.
C5_Witness ==
    /\ pc = "open"
    /\ logFile = <<LineA, LineA>>
    /\ stat.leftMon = T1
    /\ stat.leftSize = FileSize(<<LineA>>)
    /\ stat.size = FileSize(logFile)

\* C6 as claimed: the first poll of the process that scans a parseable
\* monitor-missing line returns true and stores the newest such timestamp.
C6_FreshProcessTriggers ==
    [][(ScanReturned /\ ~seenParseable /\ HasParseable(logFile))
          => (pc' = "wake" /\ {lastMonitorMissingTime'} = NewestEntry(logFile))]_vars

\* How many steps named `name` the sequence sq holds.
CountIn(sq, name) == Cardinality({i \in 1..Len(sq) : sq[i][1] = name})

\* The step that ends a tick in which a new trigger was detected.
TickEnds == pc \in {"check", "logRestartErr"} /\ pc' = "ticker"

\* The tick in progress detected a new trigger.
InNewTriggerTick == pc \in {"wake", "wait", "stop", "start", "check", "logRestartErr"}

\* C9: in a tick that detected a new trigger the wake command is attempted
\* exactly once and, whatever its outcome, the wait comes next, no step of
\* the tick terminates the process, and the tick ends back at the ticker.
C9_WakeOnceThenWait ==
    [][/\ (pc = "wake" /\ pc' # pc)
            => /\ pc' = "wait"
               /\ \E o \in Outcomes : steps' = <<<<"wake", o>>>>
       /\ (pc = "wait" /\ pc' # pc)
            => /\ pc' \in {"stop", "check"}
               /\ CountIn(steps, "wake") = 1
               /\ steps' = Append(steps, <<"wait", "ok">>)
       /\ InNewTriggerTick => pc' # "exited"
       /\ TickEnds
            => /\ CountIn(steps, "wake") = 1
               /\ CountIn(steps, "wait") = 1
               /\ steps[1][1] = "wake"
               /\ steps[2][1] = "wait"]_vars

\* C9 witness: the wake command failed to launch and the wait was performed.
C9_Witness ==
    /\ pc = "check"
    /\ steps = <<<<"wake", "launch">>, <<"wait", "ok">>>>

\* C10: with restart enabled, whatever the outcome of the stop command, the
\* start command is launched next, exactly once in the tick, and the tick
\* ends with one stop followed by one start.
C10_StartOnceAfterStop ==
    [][/\ (pc = "stop" /\ pc' # pc)
            => /\ pc' = "start"
               /\ CountIn(steps', "stop") = 1
               /\ CountIn(steps', "start") = 0
       /\ (pc = "start" /\ pc' # pc)
            => /\ pc' = "check"
               /\ steps[Len(steps)][1] = "stop"
               /\ \E o \in Outcomes : steps' = Append(steps, <<"start", o>>)
       /\ (TickEnds /\ EnableSunshineRestart)
            => /\ CountIn(steps, "stop") = 1
               /\ CountIn(steps, "start") = 1
               /\ steps[Len(steps) - 1][1] = "stop"
               /\ steps[Len(steps)][1] = "start"]_vars

\* C10 witness: the stop command exited non-zero and the start command was
\* launched after it.
C10_Witness ==
    /\ pc = "check"
    /\ EnableSunshineRestart
    /\ Len(steps) = 4
    /\ steps[3] = <<"stop", "exit">>
    /\ steps[4] = <<"start", "ok">>

\* The only monitor-missing line of f is one whose timestamp parses to t.
OnlyEntryAt(f, t) ==
    LET m == {i \in 1..Len(f) : LineInfo[f[i]].matches}
    IN  /\ Cardinality(m) = 1
        /\ \A i \in m : LineInfo[f[i]].entry = [kind |-> "time", t |-> t]

\* C2 as claimed, for the first two polls of a process: when poll 1 scanned
\* a log whose only trigger line is at t1 it returned true and stored t1
\* (which stays stored until poll 2 begins);
\* when poll 2 then scanned the same log with a trigger line at a later t2
\* appended it returned true and stored t2, and the wake command has run
\* twice once that tick is over, never more.
C2_TwoPollsTwoTriggers ==
    \A t1 \in {TZ, T1, T2} : \A t2 \in {TZ, T1, T2} :
        After(t2, t1) =>
          /\ (/\ prev.polls = 1
              /\ InNewTriggerTick \/ pc = "ticker"
              /\ OnlyEntryAt(prev.lines, t1))
                => (lastMonitorMissingTime = t1 /\ prev.fires = 1)
          /\ (/\ prev.polls = 2
              /\ OnlyEntryAt(prev.older, t1)
              /\ \E l \in LogLines :
                    /\ LineInfo[l].matches
                    /\ LineInfo[l].entry = [kind |-> "time", t |-> t2]
                    /\ prev.lines = Append(prev.older, l))
                => /\ lastMonitorMissingTime = t2
                   /\ prev.fires = 2
                   /\ prev.wakes <= 2
                   /\ pc = "ticker" => prev.wakes = 2

\* The poll in progress observed the file size and the lines that the poll
\* before it observed.
SameObservation ==
    /\ prev.polls >= 1
    /\ stat.size = prev.size
    /\ logFile = prev.lines

\* C4: a poll that observes the same file size and the same lines as the
\* poll before it returns false, so the tick goes straight back to the
\* ticker, and leaves lastLogSize and lastMonitorMissingTime as that poll
\* left them.
C4_RescanIsIdempotent ==
    [][(ScanReturned /\ SameObservation)
          => /\ pc' = "ticker"
             /\ lastLogSize' = stat.leftSize
             /\ lastMonitorMissingTime' = stat.leftMon]_vars

\* C4 witness: a poll is about to scan, for the second time in a row, a log
\* of unchanged size whose newest trigger is the handled one.
C4_Witness ==
    /\ pc = "open"
    /\ SameObservation
    /\ logFile = <<LineA, LineB>>
    /\ stat.leftMon = T2
    /\ stat.size = FileSize(logFile)

\* C7 as claimed, under FairSpec: once the log holds a trigger line whose
\* parsed timestamp t is later than every timestamp handled so far, then
\* eventually the wake command has been invoked for a new trigger, unless
\* the line leaves the log or a read of the log fails first.
C7_NewerTriggerEventuallyWakes ==
    \A t \in {TZ, T1, T2} :
        (t \in EntryTimes(logFile) /\ \A h \in handled : After(t, h))
            ~> (pc = "wait" \/ pc = "exited" \/ t \notin EntryTimes(logFile))

\* The line starts with "[" and holds a "]".
Bracketed(line) ==
    /\ Len(line) >= 1
    /\ line[1] = "["
    /\ \E i \in 1..Len(line) : line[i] = "]"

\* The text between the leading "[" and the first "]" of a bracketed line.
Between(line) ==
    LET k == CHOOSE i \in 1..Len(line) :
                 line[i] = "]" /\ \A j \in 1..(i - 1) : line[j] # "]"
    IN  SubSeq(line, 2, k - 1)

Num2(v, i) == DigitVal(v[i]) * 10 + DigitVal(v[i + 1])

Num4(v, i) == Num2(v, i) * 100 + Num2(v, i + 2)

\* The days of a month of the Gregorian calendar.
DaysOfMonth(mo, y) ==
    CASE mo \in {1, 3, 5, 7, 8, 10, 12} -> 31
      [] mo \in {4, 6, 9, 11} -> 30
      [] mo = 2 -> IF y % 400 = 0 \/ (y % 4 = 0 /\ y % 100 # 0) THEN 29 ELSE 28
      [] OTHER -> 0

\* v starts with YYYY-MM-DD, a month of 01..12 and a day of that month.
DatePart(v) ==
    /\ Len(v) >= 10
    /\ \A i \in {1, 2, 3, 4, 6, 7, 9, 10} : v[i] \in Digits
    /\ v[5] = "-"
    /\ v[8] = "-"
    /\ Num2(v, 6) \in 1..12
    /\ Num2(v, 9) \in 1..DaysOfMonth(Num2(v, 6), Num4(v, 1))

\* v is exactly YYYY-MM-DD HH:MM:SS.mmm with valid field ranges.
ExactStamp(v) ==
    /\ Len(v) = 23
    /\ DatePart(v)
    /\ v[11] = " "
    /\ \A i \in {12, 13, 15, 16, 18, 19, 21, 22, 23} : v[i] \in Digits
    /\ v[14] = ":"
    /\ v[17] = ":"
    /\ v[20] = "."
    /\ Num2(v, 12) \in 0..23
    /\ Num2(v, 15) \in 0..59
    /\ Num2(v, 18) \in 0..59

\* v is of that form, where the date and the time may be separated by several
\* spaces, the hour may have one digit, the fraction may follow a comma, and
\* its first digit may be a "+" (or a "-" before two zeros).
AcceptedStamp(v) ==
    /\ DatePart(v)
    /\ \E k \in 1..Len(v) : \E hd \in {1, 2} :
          LET p == 10 + k + hd
          IN  /\ Len(v) = p + 10
              /\ \A i \in 11..(10 + k) : v[i] = " "
              /\ \A i \in (10 + k + 1)..p : v[i] \in Digits
              /\ (IF hd = 2 THEN Num2(v, p - 1) ELSE DigitVal(v[p])) \in 0..23
              /\ v[p + 1] = ":"
              /\ v[p + 2] \in Digits /\ v[p + 3] \in Digits
              /\ Num2(v, p + 2) \in 0..59
              /\ v[p + 4] = ":"
              /\ v[p + 5] \in Digits /\ v[p + 6] \in Digits
              /\ Num2(v, p + 5) \in 0..59
              /\ v[p + 7] \in {".", ","}
              /\ \/ \A i \in (p + 8)..(p + 10) : v[i] \in Digits
                 \/ v[p + 8] = "+" /\ v[p + 9] \in Digits /\ v[p + 10] \in Digits
                 \/ v[p + 8] = "-" /\ v[p + 9] = "0" /\ v[p + 10] = "0"

\* C8 as claimed: parseSunshineTimestamp never panics, and it returns a time
\* exactly for the lines whose leading bracket holds YYYY-MM-DD HH:MM:SS.mmm
\* with valid field ranges; every other line gets an error.
C8_TimeOnlyForExactForm ==
    result # NoResult
        => /\ result.kind # "panic"
           /\ result.kind = "time" <=> (Bracketed(input) /\ ExactStamp(Between(input)))

\* C8, amended: parseSunshineTimestamp never panics; a line that does not
\* start with "[" or holds no "]" gets an error; every line of the exact
\* form gets a time; and a time is returned only for a leading bracket that
\* holds the form as time.ParseInLocation reads it (several spaces, a
\* one-digit hour, a comma, a sign in the fraction).
C8_TimeOnlyForAcceptedForm ==
    result # NoResult
        => /\ result.kind # "panic"
           /\ ~Bracketed(input) => result.kind = "error"
           /\ (Bracketed(input) /\ ExactStamp(Between(input))) => result.kind = "time"
           /\ result.kind = "time" <=> (Bracketed(input) /\ AcceptedStamp(Between(input)))

\* C8 witness: a bracketed line whose date is not a day of the calendar was
\* given an error.
C8_Witness ==
    /\ result.kind = "error"
    /\ Bracketed(input)
    /\ Len(Between(input)) = 23
    /\ ~DatePart(Between(input))

\* C11: the step in which a read of the log fails (os.Stat, os.Open or the
\* scanner) terminates the process with no command or wait executed in that
\* tick, and a terminated process takes no further step: no tick, no
\* command, no change of the tracking state.
C11_ReadFailureIsFatal ==
    [][/\ (stat'.failed /\ ~stat.failed)
            => (pc' = "exited" /\ steps = <<>> /\ steps' = <<>>)
       /\ pc = "exited"
            => /\ pc' = "exited"
               /\ steps' = steps
               /\ lastLogSize' = lastLogSize
               /\ lastMonitorMissingTime' = lastMonitorMissingTime]_vars

\* C11 witness: os.Stat saw the file, the read after it failed with an
\* unhandled trigger line in the log, and the process has terminated.
C11_Witness ==
    /\ pc = "exited"
    /\ stat.failed
    /\ logFile = <<LineN, LineB>>
    /\ lastLogSize = FileSize(logFile)
    /\ handled = {}

\* What isMonitorMissing is about to return for the log as it stands: false
\* for "no trigger" and for "already handled".
ReturnsFalse ==
    ~Decide(ScanLines(logFile, ZeroTime).latestOccurrence,
            lastMonitorMissingTime).missing

\* C12: a tick whose scan returns false without an error goes straight back
\* to the ticker with no wake, wait, stop or start step, and none is
\* executed until a later scan returns true.
C12_NoTriggerNoSteps ==
    [][/\ (ScanReturned /\ ReturnsFalse)
            => (pc' = "ticker" /\ steps' = <<>> /\ err' = err)
       /\ pc \in {"ticker", "open"} => steps' = <<>>
       /\ steps' # steps => InNewTriggerTick]_vars

\* C12 witness: the poll in progress is about to report "already handled"
\* for a log that holds a trigger line.
C12_Witness ==
    /\ pc = "open"
    /\ ReturnsFalse
    /\ logFile = <<LineA, LineN>>
    /\ lastMonitorMissingTime = T1
    /\ T1 \in handled

\* The names of the steps of sq, in order.
StepNames(sq) == [i \in 1..Len(sq) |-> sq[i][1]]

\* C13: the steps of a new-trigger tick are, in this order, the wake
\* command, the wait and, only with EnableSunshineRestart, the stop command
\* and the start command; with restart disabled the tick is over after the
\* wait and never reaches the stop or the start command.
C13_StepOrder ==
    /\ pc \in {"ticker", "open", "exited", "wake"} => steps = <<>>
    /\ pc = "wait" => StepNames(steps) = <<"wake">>
    /\ pc = "stop"
         => (EnableSunshineRestart /\ StepNames(steps) = <<"wake", "wait">>)
    /\ pc = "start"
         => (EnableSunshineRestart /\ StepNames(steps) = <<"wake", "wait", "stop">>)
    /\ pc \in {"check", "logRestartErr"}
         => StepNames(steps) = IF EnableSunshineRestart
                               THEN <<"wake", "wait", "stop", "start">>
                               ELSE <<"wake", "wait">>

\* C13 witness: with restart disabled the tick is over after the wait.
C13_Witness ==
    /\ pc = "check"
    /\ ~EnableSunshineRestart
    /\ StepNames(steps) = <<"wake", "wait">>
    /\ lastMonitorMissingTime = T2

\* C14 as claimed: when the scanned log holds a monitor-missing line whose
\* timestamp parses, the scan's latestOccurrence is the maximum of those
\* timestamps and the poll reports "new trigger" (true, storing that
\* maximum) or "already handled" (false, keeping a present
\* lastMonitorMissingTime that is not earlier), never "no trigger".
C14_LatestIsMaximumParsed ==
    [][(ScanReturned /\ HasParseable(logFile))
          => /\ {ScanLines(logFile, ZeroTime).latestOccurrence} = NewestEntry(logFile)
             /\ \/ pc' = "wake" /\ {lastMonitorMissingTime'} = NewestEntry(logFile)
                \/ /\ pc' = "ticker"
                   /\ lastMonitorMissingTime' = lastMonitorMissingTime
                   /\ ~IsZero(lastMonitorMissingTime)
                   /\ \A t \in NewestEntry(logFile) :
                          ~After(t, lastMonitorMissingTime)]_vars

\* C15 as claimed, for the first two polls of a process: a first poll that
\* scanned no parseable monitor-missing line returned false and left
\* lastMonitorMissingTime absent, and a second poll that then scanned a
\* parseable monitor-missing line returned true and stored the newest such
\* timestamp.
C15_ResetThenRetrigger ==
    /\ (prev.polls = 1 /\ ~HasParseable(prev.lines))
          => /\ prev.fires = 0
             /\ IsZero(lastMonitorMissingTime)
             /\ pc \in {"ticker", "open", "exited"}
    /\ (prev.polls = 2 /\ ~HasParseable(prev.older) /\ HasParseable(prev.lines))
          => /\ prev.fires = 1
             /\ {lastMonitorMissingTime} = NewestEntry(prev.lines)

\* C16: a poll whose os.Stat succeeded stores the size it observed in
\* lastLogSize, whether that size grew, stayed or shrank; the rest of the
\* poll and of the tick leaves lastLogSize alone whatever the scan's outcome;
\* and the poll resets the tracking state exactly when the size it observed
\* is smaller than the size the poll before it stored.
C16_LastLogSizeIsObservedSize ==
    [][/\ (pc = "ticker" /\ pc' = "open")
            => /\ lastLogSize' = FileSize(logFile)
               /\ stat'.size = FileSize(logFile)
               /\ stat'.leftSize = lastLogSize
               /\ lastMonitorMissingTime' =
                      IF FileSize(logFile) < lastLogSize
                      THEN ZeroTime ELSE lastMonitorMissingTime
       /\ pc = "open" => lastLogSize = stat.size
       /\ pc # "ticker" => lastLogSize' = lastLogSize]_vars

\* C16 witness: the poll in progress observed a smaller, non-empty file,
\* stored its size and reset the handled timestamp.
C16_Witness ==
    /\ pc = "open"
    /\ stat.size < stat.leftSize
    /\ stat.size > 0
    /\ lastLogSize = stat.size
    /\ ~IsZero(stat.leftMon)
    /\ IsZero(lastMonitorMissingTime)

\* C17: a poll begins only at the ticker, with no step of an earlier tick
\* in progress; while the wake command, the wait, the stop command or the
\* start command of a tick is in progress no poll is, the program goes on
\* to the next step of that same tick, and the tracking state is written
\* only by the one poll in progress.
C17_TicksAreSequential ==
    [][/\ (pc' = "open" /\ pc # "open") => (pc = "ticker" /\ steps = <<>>)
       /\ InNewTriggerTick
            => /\ stat = NoStat
               /\ stat' = NoStat
               /\ pc' \in {"wake", "wait", "stop", "start", "check",
                           "logRestartErr", "ticker"}
               /\ pc' = "ticker" => pc \in {"check", "logRestartErr"}
       /\ (lastLogSize' # lastLogSize \/ lastMonitorMissingTime' # lastMonitorMissingTime)
            => (pc \in {"ticker", "open"} /\ pc' # pc)]_vars

\* C17 witness: the wait of a tick is in progress while the log already
\* holds a later trigger line that no poll has scanned.
C17_Witness ==
    /\ pc = "wait"
    /\ logFile = <<LineA, LineB>>
    /\ lastMonitorMissingTime = T1
    /\ lastLogSize = FileSize(<<LineA>>)

\* C18: no step of a new-trigger tick after the scan changes lastLogSize or
\* lastMonitorMissingTime, whatever the outcome of its commands, so the tick
\* ends with the handled timestamp its scan stored; and a later poll that
\* observes an unchanged size and that same newest timestamp reports
\* "already handled".
C18_CommandOutcomesLeaveTracking ==
    [][/\ InNewTriggerTick
            => /\ lastLogSize' = lastLogSize
               /\ lastMonitorMissingTime' = lastMonitorMissingTime
               /\ lastMonitorMissingTime \in handled
       /\ (/\ ScanReturned
           /\ stat.size = stat.leftSize
           /\ stat.leftMon \in handled
           /\ NewestEntry(logFile) = {stat.leftMon})
            => (pc' = "ticker" /\ lastMonitorMissingTime' = stat.leftMon)]_vars

\* C18 witness: the wake, stop and start commands of a tick all failed and
\* the tracking state is the one its scan stored.
C18_Witness ==
    /\ pc = "check"
    /\ steps = <<<<"wake", "exit">>, <<"wait", "ok">>,
                 <<"stop", "launch">>, <<"start", "launch">>>>
    /\ logFile = <<LineA>>
    /\ lastMonitorMissingTime = T1
    /\ lastLogSize = FileSize(logFile)

\* C19 as claimed, with Sunshine appending and re-creating the log between
\* and inside the polls and writing every line once: a poll returns true
\* only when the newest parsed trigger timestamp of the log it scanned is
\* one no earlier poll returned true for, so that a trigger line causes the
\* remediation in at most one poll.
C19_WrittenOnceWakesOnce ==
    [][(watch = "once" /\ ReturnedTrue)
          => NewestEntry(logFile) \cap handled = {}]_vars

\* C20 as claimed: "Could not restart sunshine" is logged only in a tick
\* with restart enabled whose start command was attempted and failed to
\* launch.
C20_RestartErrorOnlyFromStart ==
    [][(pc' = "logRestartErr" /\ pc # "logRestartErr")
          => /\ EnableSunshineRestart
             /\ Len(steps) >= 1
             /\ steps[Len(steps)] = <<"start", "launch">>]_vars

====
